---- MODULE Spec2Model ----
(***************************************************************************)
(* petscXdmfGenerator: the specification extractor                         *)
(* (XdmfSpecification::GenerateFieldsFromPetsc, ::FromPetscHdf in both     *)
(* forms, ::FindPetscHdfChild) and the XDMF builder (XdmfBuilder::Build    *)
(* and the Generate/Write helpers it calls).                              *)
(*                                                                         *)
(* Conventions.  C++ vectors are TLA+ sequences, so the C++ index i is the *)
(* TLA+ index i+1.  A std::map is a function whose DOMAIN is the key set.  *)
(* A string built by concatenation is the sequence of its parts (name +    *)
(* "_" + x is <<name, "_", x>>); std::to_string of a small number is the   *)
(* digit string.  A double is an integer with the same order (-1, 0, 1).   *)
(* A thrown exception is a non-empty `thrown` message that every caller    *)
(* passes up unchanged.  A read outside a vector is undefined: the value   *)
(* read is an input of the operation, drawn from Garbage.                  *)
(***************************************************************************)
EXTENDS Integers, Sequences, FiniteSets, TLC

\* ------------------------------------------------------------------ bounds
\* roots the supplier yields before its end-of-sequence signal
MaxRoots == 2
\* largest extent of one axis of a raw field shape
MaxDim == 2
\* largest Nc attribute value
MaxNc == 4

VARIABLES
    \* --- the extractor and the builder (Spec)
    xpc,            \* "start" | "multi" | "done" | "failed" | "built"
    form,           \* "none" | "single" | "multi" | "caller": who made the Specification
    pulled,         \* the roots handed to the extractor so far, in order
    passed,         \* the field nodes handed to GenerateFieldsFromPetsc so far, in order
    timeIndexCount, \* the multi-source form's time-index counter
    specification,  \* the XdmfSpecification being built, then held by the builder
    failure,        \* <<>>, or the message of the exception that ended the build call
    handed,         \* the Specification as it was when Build started
    cellMap,        \* the builder's static cell-type table
    attached,       \* per grid collection, the children Build appended to the Domain
    document,       \* the children of the Domain element of the document Build returned
    again,          \* a second extraction from the same roots: its Specification so far
    \* --- the field-inference harness (SpecFields)
    fpc,            \* "in" | "inferred" | "threw"
    hdfField,       \* the raw field node handed to GenerateFieldsFromPetsc
    fieldLocation,  \* the FieldLocation argument
    timeOffset,     \* the timeOffset argument
    fields,         \* the std::vector<FieldDescription>& the call appends to
    thrown,         \* <<>>, or the message of the exception that left the call
    oobRead,        \* the call read shape[1] of a shape of rank 1
    locals,         \* the call's local variables for the node, as line 67 leaves them
    written,        \* number of entries of `fields` handed to WriteField
    dataItem        \* the DataItem WriteData built for the last field written

xvars == <<xpc, form, pulled, passed, timeIndexCount, specification, failure, handed, cellMap,
           attached, document, again>>

fvars == <<fpc, hdfField, fieldLocation, timeOffset, fields, thrown, oobRead, locals, written,
           dataItem>>

\* ------------------------------------------------------------ small helpers
Last(s) == s[Len(s)]

\* std::to_string on the component counters that occur
to_string(c) == <<"0", "1", "2", "3", "4", "5", "6", "7", "8", "9">>[c + 1]

\* values an out-of-range read of a shape can produce
Garbage == {0, 1, 3}

\* ------------------------------------------------- the HdfObject collaborator
HasAttribute(o, a) == a \in DOMAIN o.attrs
Attribute(o, a) == o.attrs[a]
Contains(o, n) == \E i \in DOMAIN o.items : o.items[i].name = n
Get(o, n) == o.items[CHOOSE i \in DOMAIN o.items : o.items[i].name = n]

\* ------------------------------------------------------- FieldDescription
GetDimension(d) == d.componentDimension
HasTimeDimension(d) == d.hasTimeDimension
GetDof(d) == IF Len(d.shape) > 2 THEN d.shape[2] ELSE d.shape[1]

petscTypeLookUpFromFieldType ==
    [scalar |-> "SCALAR", vector |-> "VECTOR", tensor |-> "TENSOR", matrix |-> "MATRIX"]

petscTypeLookUpFromNC == (1 :> "SCALAR") @@ (2 :> "VECTOR") @@ (3 :> "VECTOR")

\* lines 13-22: the provisional description
Provisional(f, location, fileName, tOff) ==
    [name |-> f.name,
     location |-> [path |-> f.path, file |-> fileName],
     shape |-> f.shape,
     timeOffset |-> tOff,
     componentOffset |-> 0,
     componentStride |-> 1,
     componentDimension |-> 0,
     fieldLocation |-> location,
     fieldType |-> "NONE",
     hasTimeDimension |-> HasAttribute(f, "timestepping") /\ Attribute(f, "timestepping") > 0]

\* a faulty check for 1D scalars that forgets the location: what C4's formula must tell
\* from DegenerateVector
DegenerateVectorAnywhere(type, rank, location, hasTime) ==
    \/ type = "VECTOR" /\ rank < 3 /\ hasTime
    \/ type = "VECTOR" /\ rank < 2 /\ ~hasTime

\* lines 32-35: the check for 1D scalars in cells
DegenerateVector(type, rank, location, hasTime) ==
    \/ type = "VECTOR" /\ rank < 3 /\ location = "CELL" /\ hasTime
    \/ type = "VECTOR" /\ rank < 2 /\ location = "CELL" /\ ~hasTime

\* lines 24-54: [determined, fieldType, separateIntoComponents]
ResolveType(f, location, hasTime) ==
    IF HasAttribute(f, "vector_field_type")
    THEN LET s == Attribute(f, "vector_field_type") IN
         IF s \in DOMAIN petscTypeLookUpFromFieldType
         THEN LET t == petscTypeLookUpFromFieldType[s] IN
              [determined |-> TRUE,
               fieldType |-> IF DegenerateVector(t, Len(f.shape), location, hasTime)
                             THEN "SCALAR" ELSE t,
               separate |-> FALSE]
         ELSE [determined |-> TRUE, fieldType |-> "NONE", separate |-> FALSE]
    ELSE IF HasAttribute(f, "Nc")
    THEN LET nc == Attribute(f, "Nc") IN
         IF nc \in DOMAIN petscTypeLookUpFromNC
         THEN [determined |-> TRUE, fieldType |-> petscTypeLookUpFromNC[nc], separate |-> FALSE]
         ELSE IF nc # 0
         THEN [determined |-> TRUE, fieldType |-> "VECTOR", separate |-> TRUE]
         ELSE [determined |-> TRUE, fieldType |-> "NONE", separate |-> FALSE]
    ELSE [determined |-> FALSE, fieldType |-> "NONE", separate |-> FALSE]

\* lines 56-64: the shape after the scalar adjustment
AdjustShape(shape, type) ==
    IF type = "SCALAR" /\ Len(shape) < 3 THEN Append(shape, 1) ELSE shape

\* lines 56-64: separateIntoComponents after the scalar adjustment
SeparateIntoComponents(shape, type, separate) ==
    IF type = "SCALAR" /\ ~(Len(shape) < 3) THEN TRUE ELSE separate

\* line 67 reads shape[1] of a vector of size 1
ReadsOutside(shape) == ~(Len(shape) > 2) /\ Len(shape) < 2

\* line 67: shape.size() > 2 ? shape[2] : shape[1]; g is what an outside read yields
ComponentDimension(shape, g) ==
    IF Len(shape) > 2 THEN shape[3]
    ELSE IF Len(shape) >= 2 THEN shape[2] ELSE g

\* line 75: "componentName" + std::to_string(c)
ComponentAttribute(c) ==
    <<"componentName0", "componentName1", "componentName2", "componentName3", "componentName4",
      "componentName5", "componentName6", "componentName7", "componentName8", "componentName9">>[c + 1]

\* lines 74-79
ComponentName(f, name, c) ==
    IF HasAttribute(f, ComponentAttribute(c))
    THEN name \o <<"_">> \o <<Attribute(f, ComponentAttribute(c))>>
    ELSE name \o <<to_string(c)>>

\* a faulty component description that keeps the stride of the unsplit field: what C5's
\* formula must tell from ComponentField
ComponentFieldUnitStride(f, description, c) ==
    [name |-> ComponentName(f, description.name, c),
     location |-> description.location,
     shape |-> description.shape,
     timeOffset |-> description.timeOffset,
     componentOffset |-> c,
     componentStride |-> description.componentStride,
     componentDimension |-> 1,
     fieldLocation |-> description.fieldLocation,
     fieldType |-> "SCALAR",
     hasTimeDimension |-> description.hasTimeDimension]

\* lines 82-91
ComponentField(f, description, c) ==
    [name |-> ComponentName(f, description.name, c),
     location |-> description.location,
     shape |-> description.shape,
     timeOffset |-> description.timeOffset,
     componentOffset |-> c,
     componentStride |-> GetDimension(description),
     componentDimension |-> 1,
     fieldLocation |-> description.fieldLocation,
     fieldType |-> "SCALAR",
     hasTimeDimension |-> description.hasTimeDimension]

\* lines 72-94: the components c = from .. GetDimension()-1, in order
RECURSIVE ComponentFields(_, _, _)
ComponentFields(f, description, from) ==
    IF from >= GetDimension(description) THEN <<>>
    ELSE <<ComponentField(f, description, from)>> \o ComponentFields(f, description, from + 1)

\* a faulty inference that skips a node of undetermined type instead of throwing: what
\* C6's formula must tell from FieldFromPetsc
FieldFromPetscSkipping(f, location, fileName, tOff, g) ==
    LET p == Provisional(f, location, fileName, tOff)
        r == ResolveType(f, location, HasTimeDimension(p))
        shape == AdjustShape(p.shape, r.fieldType)
        description == [p EXCEPT !.fieldType = r.fieldType,
                                 !.shape = shape,
                                 !.componentDimension = ComponentDimension(shape, g)]
    IN [thrown |-> <<>>,
        emitted |-> IF description.fieldType = "NONE" THEN <<>>
                    ELSE IF SeparateIntoComponents(p.shape, r.fieldType, r.separate)
                    THEN ComponentFields(f, description, 0)
                    ELSE <<description>>,
        oob |-> ReadsOutside(shape),
        locals |-> <<[fieldType |-> r.fieldType, marked |-> r.separate,
                      separateIntoComponents |->
                          SeparateIntoComponents(p.shape, r.fieldType, r.separate),
                      shape |-> shape,
                      componentDimension |-> description.componentDimension]>>]

\* lines 13-98, one node: what it appends, or the exception it throws; `locals` are
\* fieldType and separateIntoComponents as line 54 leaves them, and
\* separateIntoComponents, shape and componentDimension as line 67 leaves them
FieldFromPetsc(f, location, fileName, tOff, g) ==
    LET p == Provisional(f, location, fileName, tOff)
        r == ResolveType(f, location, HasTimeDimension(p))
        shape == AdjustShape(p.shape, r.fieldType)
        sep == SeparateIntoComponents(p.shape, r.fieldType, r.separate)
        description == [p EXCEPT !.fieldType = r.fieldType,
                                 !.shape = shape,
                                 !.componentDimension = ComponentDimension(shape, g)]
    IN IF ~r.determined
       THEN [thrown |-> <<"Cannot determine field type for ">> \o p.name,
             emitted |-> <<>>, oob |-> FALSE, locals |-> <<>>]
       ELSE [thrown |-> <<>>,
             emitted |-> IF description.fieldType = "NONE" THEN <<>>
                         ELSE IF sep THEN ComponentFields(f, description, 0)
                         ELSE <<description>>,
             oob |-> ReadsOutside(shape),
             locals |-> <<[fieldType |-> r.fieldType, marked |-> r.separate,
                           separateIntoComponents |-> sep, shape |-> shape,
                           componentDimension |-> description.componentDimension]>>]

\* lines 10-100: the loop over hdfFields; an exception leaves the loop
RECURSIVE GenerateFieldsFromPetsc(_, _, _, _, _, _)
GenerateFieldsFromPetsc(fs, hdfFields, location, fileName, tOff, g) ==
    IF hdfFields = <<>> THEN [fields |-> fs, thrown |-> <<>>, oob |-> FALSE, locals |-> <<>>]
    ELSE LET After(one) ==
                 IF one.thrown # <<>>
                 THEN [fields |-> fs, thrown |-> one.thrown, oob |-> FALSE, locals |-> <<>>]
                 ELSE [GenerateFieldsFromPetsc(fs \o one.emitted, Tail(hdfFields),
                                               location, fileName, tOff, g)
                          EXCEPT !.oob = one.oob \/ @, !.locals = one.locals \o @]
         IN After(FieldFromPetsc(hdfFields[1], location, fileName, tOff, g))

\* ------------------------------------------------------ XdmfBuilder::WriteData
\* the DataItem of a field: a HyperSlab over the full array, or the array itself
WriteData(fd) ==
    IF HasTimeDimension(fd)
    THEN [ItemType |-> "HyperSlab",
          Dimensions |-> <<1, GetDof(fd), GetDimension(fd)>>,
          start |-> <<fd.timeOffset, 0, fd.componentOffset>>,
          stride |-> <<1, 1, fd.componentStride>>,
          count |-> <<1, GetDof(fd), GetDimension(fd)>>,
          arrayDimensions |-> fd.shape,
          reference |-> fd.location]
    ELSE [ItemType |-> "Uniform",
          Dimensions |-> fd.shape,
          start |-> <<>>,
          stride |-> <<>>,
          count |-> <<>>,
          arrayDimensions |-> fd.shape,
          reference |-> fd.location]

NoDataItem ==
    [ItemType |-> "none", Dimensions |-> <<>>, start |-> <<>>, stride |-> <<>>, count |-> <<>>,
     arrayDimensions |-> <<>>, reference |-> [path |-> <<>>, file |-> <<>>]]

\* ------------------------------------------- descriptions and their defaults
NoLocation == [path |-> <<>>, file |-> <<>>]

DefaultField ==
    [name |-> <<>>, location |-> NoLocation, shape |-> <<>>, timeOffset |-> 0,
     componentOffset |-> 0, componentStride |-> 1, componentDimension |-> 0,
     fieldLocation |-> "NODE", fieldType |-> "NONE", hasTimeDimension |-> FALSE]

DefaultTopology == [location |-> NoLocation, number |-> 0, numberCorners |-> 0, dimension |-> 0]

DefaultCollection == [name |-> <<"domain">>, grids |-> <<>>]

NoSpecification == [gridsCollections |-> <<>>]

\* "" for index 0, "_<index>" after it
GetTopologyPostfix(topologyIndex) ==
    IF topologyIndex = 0 THEN <<>> ELSE <<"_", to_string(topologyIndex)>>

\* a faulty store that files every grid under index 0: what C2's formula must tell from
\* PushBack
PushBackFirst(grids, k, grid) ==
    IF 0 \in DOMAIN grids
    THEN [grids EXCEPT ![0] = Append(@, grid)]
    ELSE [j \in DOMAIN grids \cup {0} |-> IF j = 0 THEN <<grid>> ELSE grids[j]]

\* grids[k].push_back(grid) on a std::map: the entry is created on first access
PushBack(grids, k, grid) ==
    IF k \in DOMAIN grids
    THEN [grids EXCEPT ![k] = Append(@, grid)]
    ELSE [j \in DOMAIN grids \cup {k} |-> IF j = k THEN <<grid>> ELSE grids[j]]

\* lines 346-354: <<>> is nullptr
FindPetscHdfChild(root, name) ==
    IF Contains(root, <<"viz">>) /\ Contains(Get(root, <<"viz">>), name)
    THEN <<Get(Get(root, <<"viz">>), name)>>
    ELSE IF Contains(root, name) THEN <<Get(root, name)>>
    ELSE <<>>

\* line 118: the root's time array, or the sentinel
TimeOf(root) == IF Contains(root, <<"time">>) THEN Get(root, <<"time">>).data ELSE <<-1>>

\* lines 126-129: a geometry read from a dataset
GeometryFrom(object, hdf5File) ==
    [DefaultField EXCEPT
        !.name = object.name,
        !.location = [path |-> object.path, file |-> hdf5File],
        !.shape = object.shape,
        !.fieldLocation = "NODE",
        !.fieldType = "VECTOR",
        !.componentDimension = IF Len(object.shape) > 2 THEN object.shape[3] ELSE Last(object.shape)]

\* lines 133-138
TopologyFrom(cellObject, hdf5File) ==
    [DefaultTopology EXCEPT
        !.location = [path |-> cellObject.path, file |-> hdf5File],
        !.number = cellObject.shape[1],
        !.numberCorners = cellObject.shape[2],
        !.dimension = Attribute(cellObject, "cell_dim")]

\* lines 143-147
HybridTopologyFrom(cellObject, hdf5File) ==
    [DefaultTopology EXCEPT
        !.location = [path |-> cellObject.path, file |-> hdf5File],
        !.number = cellObject.shape[1],
        !.numberCorners = cellObject.shape[2]]

\* lines 202-206: the point-cloud topology of a particle grid
ParticleTopology(geometry, hdf5File) ==
    [location |-> [path |-> <<>>, file |-> hdf5File],
     number |-> GetDof(geometry),
     numberCorners |-> 0,
     dimension |-> GetDimension(geometry)]

\* Get on a child that is not there: the container's access error
MissingChild(name) == <<"no child named ">> \o name

NoGrid ==
    [time |-> 0, geometry |-> DefaultField, topology |-> DefaultTopology,
     hybridTopology |-> DefaultTopology, fields |-> <<>>]

\* lines 151-156: the fields of group `name`, appended to fs, when the group exists
FieldsOfGroup(fs, root, name, location, hdf5File, tOff, g) ==
    IF Contains(root, name)
    THEN LET After(r) == [fields |-> r.fields, thrown |-> r.thrown,
                               passed |-> Get(root, name).items]
         IN After(GenerateFieldsFromPetsc(fs, Get(root, name).items, location, hdf5File, tOff, g))
    ELSE [fields |-> fs, thrown |-> <<>>, passed |-> <<>>]

\* lines 122-156 (and 247-281): one mesh GridDescription; the two forms differ in the
\* field group names and in the time offset
MeshGrid(root, geometryObject, topologyObject, vertexFields, cellFields, hdf5File, time, tOff, g) ==
    LET hybridTopologyObject == FindPetscHdfChild(root, <<"hybrid_topology">>)
        \* vf, cf: the results of the calls of lines 152 and 155
        With(vf, cf) ==
            IF ~Contains(geometryObject, <<"vertices">>)
            THEN [thrown |-> MissingChild(<<"vertices">>), grid |-> NoGrid, passed |-> <<>>]
            ELSE IF ~Contains(topologyObject, <<"cells">>)
            THEN [thrown |-> MissingChild(<<"cells">>), grid |-> NoGrid, passed |-> <<>>]
            ELSE IF hybridTopologyObject # <<>> /\ ~Contains(topologyObject, <<"hcells">>)
            THEN [thrown |-> MissingChild(<<"hcells">>), grid |-> NoGrid, passed |-> <<>>]
            ELSE IF vf.thrown # <<>>
            THEN [thrown |-> vf.thrown, grid |-> NoGrid, passed |-> vf.passed]
            ELSE IF cf.thrown # <<>>
            THEN [thrown |-> cf.thrown, grid |-> NoGrid, passed |-> vf.passed \o cf.passed]
            ELSE [thrown |-> <<>>,
                  grid |-> [time |-> time,
                            geometry |-> GeometryFrom(Get(geometryObject, <<"vertices">>), hdf5File),
                            topology |-> TopologyFrom(Get(topologyObject, <<"cells">>), hdf5File),
                            hybridTopology |->
                                IF hybridTopologyObject # <<>>
                                THEN HybridTopologyFrom(Get(topologyObject, <<"hcells">>), hdf5File)
                                ELSE DefaultTopology,
                            fields |-> cf.fields],
                  passed |-> vf.passed \o cf.passed]
        WithVertexFields(vf) ==
            With(vf, FieldsOfGroup(vf.fields, root, cellFields, "CELL", hdf5File, tOff, g))
    IN WithVertexFields(FieldsOfGroup(<<>>, root, vertexFields, "NODE", hdf5File, tOff, g))

\* lines 192: std::find_if, 0 when there is none
FindNamed(fs, name) ==
    IF \E i \in DOMAIN fs : fs[i].name = name
    THEN CHOOSE i \in DOMAIN fs : fs[i].name = name /\ \A j \in 1..(i - 1) : fs[j].name # name
    ELSE 0

\* line 195: std::vector::erase
Erase(fs, i) == SubSeq(fs, 1, i - 1) \o SubSeq(fs, i + 1, Len(fs))

\* lines 176-206 (and 304-335): one particle GridDescription
ParticleGrid(root, hdf5File, time, tOff, g) ==
    LET \* pf: the result of the call of line 180; gridField: the find_if of line 192
        With(pf, gridField, geometry) ==
            IF pf.thrown # <<>>
            THEN [thrown |-> pf.thrown, grid |-> NoGrid, passed |-> pf.passed]
            ELSE IF Contains(root, <<"particles">>)
                    /\ ~Contains(Get(root, <<"particles">>), <<"coordinates">>)
            THEN [thrown |-> MissingChild(<<"coordinates">>), grid |-> NoGrid,
                  passed |-> pf.passed]
            ELSE IF ~Contains(root, <<"particles">>) /\ gridField = 0
            THEN [thrown |-> <<"Cannot determine geometry for particles">>, grid |-> NoGrid,
                  passed |-> pf.passed]
            ELSE [thrown |-> <<>>,
                  grid |-> [time |-> time,
                            geometry |-> geometry,
                            topology |-> ParticleTopology(geometry, hdf5File),
                            hybridTopology |-> DefaultTopology,
                            fields |-> IF Contains(root, <<"particles">>) THEN pf.fields
                                       ELSE Erase(pf.fields, gridField)],
                  passed |-> pf.passed]
        WithGridField(pf, gridField) ==
            With(pf, gridField,
                 IF Contains(root, <<"particles">>)
                 THEN GeometryFrom(Get(Get(root, <<"particles">>), <<"coordinates">>), hdf5File)
                 ELSE pf.fields[gridField])
        WithFields(pf) == WithGridField(pf, FindNamed(pf.fields, <<"DMSwarmPIC_coor">>))
    IN WithFields(FieldsOfGroup(<<>>, root, <<"particle_fields">>, "NODE", hdf5File, tOff, g))

\* ------------------------------------------- FromPetscHdf(rootObject)
\* lines 121-159: one GridDescription per entry of `time`, stored under its index
RECURSIVE MeshTimes(_, _, _, _, _, _, _, _)
MeshTimes(grids, rootObject, geometryObject, topologyObject, topologyIndex, time, timeIndex, g) ==
    IF timeIndex >= Len(time) THEN [grids |-> grids, thrown |-> <<>>, passed |-> <<>>]
    ELSE LET After(one) ==
                 IF one.thrown # <<>>
                 THEN [grids |-> grids, thrown |-> one.thrown, passed |-> one.passed]
                 ELSE [MeshTimes(PushBack(grids, timeIndex, one.grid), rootObject,
                                 geometryObject, topologyObject, topologyIndex, time,
                                 timeIndex + 1, g)
                          EXCEPT !.passed = one.passed \o @]
         IN After(MeshGrid(rootObject, geometryObject, topologyObject,
                           <<"vertex_fields">> \o GetTopologyPostfix(topologyIndex),
                           <<"cell_fields">> \o GetTopologyPostfix(topologyIndex),
                           rootObject.name, time[timeIndex + 1], timeIndex, g))

\* lines 115-161: the march over topology, topology_1, ... until one is missing
RECURSIVE MeshTopologies(_, _, _, _, _)
MeshTopologies(grids, rootObject, geometryObject, topologyIndex, g) ==
    LET topologyObject ==
            FindPetscHdfChild(rootObject, <<"topology">> \o GetTopologyPostfix(topologyIndex))
    IN IF topologyObject = <<>> THEN [grids |-> grids, thrown |-> <<>>, passed |-> <<>>]
       ELSE LET After(one) ==
                    IF one.thrown # <<>> THEN one
                    ELSE [MeshTopologies(one.grids, rootObject, geometryObject,
                                         topologyIndex + 1, g)
                             EXCEPT !.passed = one.passed \o @]
            IN After(MeshTimes(grids, rootObject, geometryObject, topologyObject[1],
                               topologyIndex, TimeOf(rootObject), 0, g))

\* lines 175-209: one particle GridDescription per entry of `time`
RECURSIVE ParticleTimes(_, _, _, _, _)
ParticleTimes(grids, rootObject, time, timeIndex, g) ==
    IF timeIndex >= Len(time) THEN [grids |-> grids, thrown |-> <<>>, passed |-> <<>>]
    ELSE LET After(one) ==
                 IF one.thrown # <<>>
                 THEN [grids |-> grids, thrown |-> one.thrown, passed |-> one.passed]
                 ELSE [ParticleTimes(PushBack(grids, timeIndex, one.grid), rootObject,
                                     time, timeIndex + 1, g)
                          EXCEPT !.passed = one.passed \o @]
         IN After(ParticleGrid(rootObject, rootObject.name, time[timeIndex + 1], timeIndex, g))

NothingDone == [grids |-> <<>>, thrown |-> <<>>, passed |-> <<>>]

\* lines 102-216: the Specification of one root, or the exception that ends the call
FromPetscHdf(rootObject, g) ==
    LET geometryObject == FindPetscHdfChild(rootObject, <<"geometry">>)
        hasParticles == Contains(rootObject, <<"particles">>)
                        \/ Contains(rootObject, <<"particle_fields">>)
        \* mesh, particles: what the two branches did
        With(mesh, particles) ==
            LET mainGrid == [DefaultCollection EXCEPT !.grids = mesh.grids]
                particleGrid == [DefaultCollection EXCEPT !.name = <<"particle_domain">>,
                                                          !.grids = particles.grids]
            IN IF mesh.thrown # <<>>
               THEN [specification |-> NoSpecification, thrown |-> mesh.thrown,
                     passed |-> mesh.passed]
               ELSE IF particles.thrown # <<>>
               THEN [specification |-> NoSpecification, thrown |-> particles.thrown,
                     passed |-> mesh.passed \o particles.passed]
               ELSE [specification |->
                         [gridsCollections |->
                             (IF geometryObject # <<>> THEN <<mainGrid>> ELSE <<>>)
                             \o (IF hasParticles THEN <<particleGrid>> ELSE <<>>)],
                     thrown |-> <<>>,
                     passed |-> mesh.passed \o particles.passed]
    IN With(IF geometryObject # <<>>
            THEN MeshTopologies(<<>>, rootObject, geometryObject[1], 0, g)
            ELSE NothingDone,
            IF hasParticles
            THEN ParticleTimes(<<>>, rootObject, TimeOf(rootObject), 0, g)
            ELSE NothingDone)

\* ------------------------------------------- FromPetscHdf(consumer)
\* lines 239-285: one GridDescription per topology, all stored under timeIndexCount
RECURSIVE MeshTopologiesOfStep(_, _, _, _, _, _)
MeshTopologiesOfStep(grids, hdf5Object, geometryObject, topologyIndex, count, g) ==
    LET topologyObject ==
            FindPetscHdfChild(hdf5Object, <<"topology">> \o GetTopologyPostfix(topologyIndex))
    IN IF topologyObject = <<>> THEN [grids |-> grids, thrown |-> <<>>, passed |-> <<>>]
       ELSE LET After(one) ==
                    IF one.thrown # <<>>
                    THEN [grids |-> grids, thrown |-> one.thrown, passed |-> one.passed]
                    ELSE [MeshTopologiesOfStep(PushBack(grids, count, one.grid), hdf5Object,
                                               geometryObject, topologyIndex + 1, count, g)
                             EXCEPT !.passed = one.passed \o @]
            IN After(MeshGrid(hdf5Object, geometryObject, topologyObject[1],
                              <<"vertex_fields">>, <<"cell_fields">>, hdf5Object.name,
                              TimeOf(hdf5Object)[1], 0, g))

\* lines 303-338: one particle GridDescription per entry of `time`, all under timeIndexCount
RECURSIVE ParticleTimesOfStep(_, _, _, _, _, _)
ParticleTimesOfStep(grids, hdf5Object, time, timeIndex, count, g) ==
    IF timeIndex >= Len(time) THEN [grids |-> grids, thrown |-> <<>>, passed |-> <<>>]
    ELSE LET After(one) ==
                 IF one.thrown # <<>>
                 THEN [grids |-> grids, thrown |-> one.thrown, passed |-> one.passed]
                 ELSE [ParticleTimesOfStep(PushBack(grids, count, one.grid), hdf5Object,
                                           time, timeIndex + 1, count, g)
                          EXCEPT !.passed = one.passed \o @]
         IN After(ParticleGrid(hdf5Object, hdf5Object.name, time[timeIndex + 1], 0, g))

\* lines 232-235 (and 291-294): the collection the branch writes to is created when the
\* list is empty, and is the last of the list otherwise
WithCollection(gridsCollections) ==
    IF gridsCollections = <<>> THEN <<DefaultCollection>> ELSE gridsCollections

\* lines 227-340: the loop body for one root pulled from the consumer
FromPetscHdfStep(spec, hdf5Object, count, g) ==
    LET geometryObject == FindPetscHdfChild(hdf5Object, <<"geometry">>)
        hasParticles == Contains(hdf5Object, <<"particles">>)
                        \/ Contains(hdf5Object, <<"particle_fields">>)
        \* c1: the collections when the mesh branch has its collection
        c1 == IF geometryObject # <<>> THEN WithCollection(spec.gridsCollections)
              ELSE spec.gridsCollections
        \* c2: the collections after the mesh branch
        C2(mesh) == IF geometryObject # <<>> THEN [c1 EXCEPT ![Len(c1)].grids = mesh.grids]
                    ELSE c1
        \* c3: the collections when the particle branch has its collection and named it
        C3(c2) == IF hasParticles
                  THEN [WithCollection(c2) EXCEPT
                           ![Len(WithCollection(c2))].name = <<"particle_domain">>]
                  ELSE c2
        \* c4: the collections after the particle branch
        C4(c3, particles) ==
            IF hasParticles THEN [c3 EXCEPT ![Len(c3)].grids = particles.grids] ELSE c3
        With(mesh, c3, particles) ==
            IF mesh.thrown # <<>>
            THEN [specification |-> NoSpecification, thrown |-> mesh.thrown,
                  passed |-> mesh.passed]
            ELSE IF particles.thrown # <<>>
            THEN [specification |-> NoSpecification, thrown |-> particles.thrown,
                  passed |-> mesh.passed \o particles.passed]
            ELSE [specification |-> [gridsCollections |-> C4(c3, particles)], thrown |-> <<>>,
                  passed |-> mesh.passed \o particles.passed]
        WithCollections(mesh, c3) ==
            With(mesh, c3,
                 IF hasParticles /\ mesh.thrown = <<>>
                 THEN ParticleTimesOfStep(Last(c3).grids, hdf5Object, TimeOf(hdf5Object), 0,
                                          count, g)
                 ELSE NothingDone)
        WithMesh(mesh) == WithCollections(mesh, C3(C2(mesh)))
    IN WithMesh(IF geometryObject # <<>>
                THEN MeshTopologiesOfStep(Last(c1).grids, hdf5Object, geometryObject[1], 0,
                                          count, g)
                ELSE NothingDone)

\* ------------------------------------------------------------ XdmfBuilder
\* lines 15-17: dim, corners to cell type, as the process starts
CellMapInitial ==
    (1 :> ((0 :> "Polyvertex") @@ (1 :> "Polyvertex") @@ (2 :> "Polyline")))
    @@ (2 :> ((0 :> "Polyvertex") @@ (2 :> "Polyline") @@ (3 :> "Triangle")
              @@ (4 :> "Quadrilateral")))
    @@ (3 :> ((0 :> "Polyvertex") @@ (4 :> "Tetrahedron") @@ (6 :> "Wedge")
              @@ (8 :> "Hexahedron")))

\* line 22: dim, corners to nodes per cell
nodesPerCell ==
    (1 :> ((0 :> -1) @@ (2 :> 2))) @@ (2 :> ((0 :> -1) @@ (2 :> 2))) @@ (3 :> (0 :> -1))

\* line 24
typeMap == [SCALAR |-> "Scalar", VECTOR |-> "Vector", TENSOR |-> "Tensor6", MATRIX |-> "Matrix"]

\* line 26
locationMap == [NODE |-> "Node", CELL |-> "Cell"]

\* std::map::count on a map of maps
Count(map, dim, corners) == dim \in DOMAIN map /\ corners \in DOMAIN map[dim]

\* line 146: cellMap[dimension][numberCorners] on a non-const std::map never fails; a key
\* that is not there is inserted with the empty string, which is the value returned
CellType(cm, dim, corners) == IF Count(cm, dim, corners) THEN cm[dim][corners] ELSE ""

\* line 146: the table after the lookups of `pairs`
InsertDefaults(cm, pairs) ==
    [dim \in DOMAIN cm \cup {p[1] : p \in pairs} |->
        [corners \in (IF dim \in DOMAIN cm THEN DOMAIN cm[dim] ELSE {})
                     \cup {p[2] : p \in {q \in pairs : q[1] = dim}} |->
            IF Count(cm, dim, corners) THEN cm[dim][corners] ELSE ""]]

\* lines 217-220: every '/' of the path becomes '_'
Hdf5PathToName(path) ==
    [i \in 1..(2 * Len(path)) |-> IF i % 2 = 1 THEN <<"_">> ELSE path[i \div 2]]

\* a Grid element: its attributes, its Time, Topology and Geometry children (<<>> when
\* it has none), its Attribute children and its Grid children, in order
GridElement(name, gridType, collectionType) ==
    [Name |-> name, GridType |-> gridType, CollectionType |-> collectionType,
     Time |-> <<>>, Topology |-> <<>>, Geometry |-> <<>>, Attributes |-> <<>>, Grids |-> <<>>]

\* lines 93-103
WriteCells(topologyDescription) ==
    [Name |-> Hdf5PathToName(topologyDescription.location.path),
     Dimensions |-> <<topologyDescription.number, topologyDescription.numberCorners>>,
     reference |-> topologyDescription.location]

\* lines 110-126
GenerateTimeGrid(time) ==
    [GridElement(<<"TimeSeries">>, "Collection", "Temporal") EXCEPT
        !.Time = <<[TimeType |-> "List", Dimensions |-> Len(time), values |-> time]>>]

\* lines 128-136
GenerateSpatialGrid(domainName, collectionType) ==
    GridElement(domainName, "Collection", collectionType)

\* lines 144-163: the Topology element
TopologyElement(td, cm) ==
    [TopologyType |-> CellType(cm, td.dimension, td.numberCorners),
     NodesPerElement |->
        IF Count(nodesPerCell, td.dimension, td.numberCorners)
        THEN IF nodesPerCell[td.dimension][td.numberCorners] < 0
             THEN <<td.number>>
             ELSE <<nodesPerCell[td.dimension][td.numberCorners]>>
        ELSE <<>>,
     NumberOfElements |-> IF td.numberCorners # 0 THEN <<td.number>> ELSE <<>>,
     DataItem |-> IF td.numberCorners # 0 THEN <<WriteCells(td)>> ELSE <<>>]

\* lines 138-170
GenerateSpaceGrid(topologyDescription, geometryDescription, domainName, cm) ==
    [GridElement(domainName, "Uniform", "") EXCEPT
        !.Topology = <<TopologyElement(topologyDescription, cm)>>,
        !.Geometry = <<[GeometryType |-> IF GetDimension(geometryDescription) > 2
                                         THEN "XYZ" ELSE "XY",
                        DataItem |-> WriteData(geometryDescription)]>>]

\* lines 208-215: the Attribute element of a field
WriteField(fd) ==
    [Name |-> fd.name, Type |-> typeMap[fd.fieldType], Center |-> locationMap[fd.fieldLocation],
     DataItem |-> WriteData(fd)]

\* lines 73-86: what one GridDescription adds under its base
BuildGrid(grid, name, cm) ==
    LET spaceGrid ==
            [GenerateSpaceGrid(grid.topology, grid.geometry, name, cm) EXCEPT
                !.Attributes = [i \in DOMAIN grid.fields |-> WriteField(grid.fields[i])]]
    IN IF grid.hybridTopology.number > 0
       THEN <<[GenerateSpatialGrid(name, "") EXCEPT
                  !.Grids = <<GenerateSpaceGrid(grid.hybridTopology, grid.geometry, name, cm),
                              spaceGrid>>]>>
       ELSE <<spaceGrid>>

RECURSIVE BuildGrids(_, _, _)
BuildGrids(grids, name, cm) ==
    IF grids = <<>> THEN <<>>
    ELSE BuildGrid(grids[1], name, cm) \o BuildGrids(Tail(grids), name, cm)

\* line 67: grids[timeIndex] on the std::map; an index that is no key reads a new, empty entry
GridsAt(collection, timeIndex) ==
    IF timeIndex \in DOMAIN collection.grids THEN collection.grids[timeIndex] ELSE <<>>

\* lines 66-87: the loop runs timeIndex over 0 .. timeVector.size()-1
RECURSIVE BuildTimes(_, _, _, _)
BuildTimes(collection, timeIndex, size, cm) ==
    IF timeIndex >= size THEN <<>>
    ELSE LET grids == GridsAt(collection, timeIndex)
             inner == BuildGrids(grids, collection.name, cm)
         IN (IF Len(grids) > 1
             THEN <<[GenerateSpatialGrid(collection.name, "Spatial") EXCEPT !.Grids = inner]>>
             ELSE inner)
            \o BuildTimes(collection, timeIndex + 1, size, cm)

\* line 50: std::sort of the keys
RECURSIVE Sorted(_)
Sorted(keys) ==
    IF keys = {} THEN <<>>
    ELSE LET least == CHOOSE k \in keys : \A j \in keys : k <= j
         IN <<least>> \o Sorted(keys \ {least})

\* a faulty test that takes time 0 for the sentinel: what C9's formula must tell from
\* UseTime
UseTimePositive(collection, timeIndexes) ==
    ~(DOMAIN collection.grids = {} \/ timeIndexes = <<>>
      \/ collection.grids[timeIndexes[1]][1].time <= 0)

\* line 53
UseTime(collection, timeIndexes) ==
    ~(DOMAIN collection.grids = {} \/ timeIndexes = <<>>
      \/ collection.grids[timeIndexes[1]][1].time < 0)

\* lines 56-60
TimeVector(collection, timeIndexes) ==
    [i \in DOMAIN timeIndexes |-> collection.grids[timeIndexes[i]][1].time]

\* lines 46-87: what one grid collection appends to the Domain
BuildCollection(collection, cm) ==
    LET timeIndexes == Sorted(DOMAIN collection.grids)
        timeVector == TimeVector(collection, timeIndexes)
        content == BuildTimes(collection, 0, Len(timeVector), cm)
    IN IF UseTime(collection, timeIndexes)
       THEN <<[GenerateTimeGrid(timeVector) EXCEPT !.Grids = content]>>
       ELSE content

\* line 67: the collection after the loop, with the entries the loop's reads created
TouchedCollection(collection) ==
    LET touched == 0..(Cardinality(DOMAIN collection.grids) - 1)
    IN [collection EXCEPT
           !.grids = [k \in DOMAIN collection.grids \cup touched |-> GridsAt(collection, k)]]

\* lines 74-80: the (dimension, numberCorners) pairs GenerateSpaceGrid looks up
LookedUp(collection) ==
    LET touched == 0..(Cardinality(DOMAIN collection.grids) - 1)
        grids == UNION {{GridsAt(collection, k)[i] : i \in 1..Len(GridsAt(collection, k))} :
                           k \in touched}
    IN UNION {{<<gr.topology.dimension, gr.topology.numberCorners>>}
                 \cup (IF gr.hybridTopology.number > 0
                       THEN {<<gr.hybridTopology.dimension, gr.hybridTopology.numberCorners>>}
                       ELSE {}) : gr \in grids}

RECURSIVE Flatten(_)
Flatten(seqs) == IF seqs = <<>> THEN <<>> ELSE seqs[1] \o Flatten(Tail(seqs))

\* --------------------------------------------- field nodes of the containers
NoAttribute == <<>>

\* the ranks of raw field shapes
Ranks == 1..4

Shapes == UNION {[1..r -> 1..MaxDim] : r \in Ranks}

TimesteppingAttributes == {NoAttribute, [timestepping |-> 0], [timestepping |-> 1]}

VectorFieldTypeAttributes ==
    {NoAttribute} \cup
    {[vector_field_type |-> s] : s \in {"scalar", "vector", "tensor", "matrix", "other"}}

NcAttributes == {NoAttribute} \cup {[Nc |-> n] : n \in (-1)..MaxNc}

ComponentNameAttributes == {NoAttribute, [componentName1 |-> "y"]}

\* a dataset: Name(), Path() (the names from the root down), Shape(), attributes, RawData()
Dataset(name, path, shape, attrs, data) ==
    [name |-> name, path |-> path, shape |-> shape, attrs |-> attrs, items |-> <<>>,
     data |-> data]

\* a group: Name(), Path() and Items()
Group(name, path, items) ==
    [name |-> name, path |-> path, shape |-> <<>>, attrs |-> NoAttribute, items |-> items,
     data |-> <<>>]

FieldNode(group, name, shape, attrs) == Dataset(<<name>>, <<group, <<name>>>>, shape, attrs, <<>>)

FieldNodes ==
    {FieldNode(<<"fields">>, "f", s, a1 @@ a2 @@ a3 @@ a4) :
        s \in Shapes, a1 \in TimesteppingAttributes, a2 \in VectorFieldTypeAttributes,
        a3 \in NcAttributes, a4 \in ComponentNameAttributes}

\* ------------------------------------------------------ roots of the containers
GeometryGroup ==
    Group(<<"geometry">>, <<<<"geometry">>>>,
          <<Dataset(<<"vertices">>, <<<<"geometry">>, <<"vertices">>>>, <<3, 3>>, NoAttribute, <<>>)>>)

TopologyGroup(topologyIndex, number, corners, dim) ==
    LET name == <<"topology">> \o GetTopologyPostfix(topologyIndex)
    IN Group(name, <<name>>,
             <<Dataset(<<"cells">>, <<name, <<"cells">>>>, <<number, corners>>,
                       [cell_dim |-> dim], <<>>)>>)

\* a "topology" group that also holds "hcells"
TopologyWithHybridCells ==
    Group(<<"topology">>, <<<<"topology">>>>,
          <<Dataset(<<"cells">>, <<<<"topology">>, <<"cells">>>>, <<2, 4>>, [cell_dim |-> 3], <<>>),
            Dataset(<<"hcells">>, <<<<"topology">>, <<"hcells">>>>, <<1, 6>>, NoAttribute, <<>>)>>)

\* the "hybrid_topology" group with its "hcells"
HybridTopologyGroup ==
    Group(<<"hybrid_topology">>, <<<<"hybrid_topology">>>>,
          <<Dataset(<<"hcells">>, <<<<"hybrid_topology">>, <<"hcells">>>>, <<3, 8>>,
                    NoAttribute, <<>>)>>)

TimeDataset(values) == Dataset(<<"time">>, <<<<"time">>>>, <<Len(values)>>, NoAttribute, values)

FieldsGroup(name, nodes) == Group(name, <<name>>, nodes)

Velocity == FieldNode(<<"vertex_fields">>, "velocity", <<3, 3>>, [vector_field_type |-> "vector"])
Displacement ==
    FieldNode(<<"vertex_fields", "_", "1">>, "displacement", <<3, 2>>, [vector_field_type |-> "vector"])
\* a vector field stored with one extent only
Stretch == FieldNode(<<"vertex_fields">>, "stretch", <<3>>, [vector_field_type |-> "vector"])
Pressure == FieldNode(<<"cell_fields">>, "pressure", <<2>>, [vector_field_type |-> "scalar"])
Unknown(group) == FieldNode(group, "unknown", <<2>>, NoAttribute)
Coor == FieldNode(<<"particle_fields">>, "DMSwarmPIC_coor", <<4, 3>>, [Nc |-> 3])
Mass == FieldNode(<<"particle_fields">>, "mass", <<4>>, [Nc |-> 1])
Species == FieldNode(<<"particle_fields">>, "species", <<4, 4>>,
                     [Nc |-> 4] @@ [componentName1 |-> "y"])

ParticlesGroup(items) == Group(<<"particles">>, <<<<"particles">>>>, items)

Coordinates ==
    Dataset(<<"coordinates">>, <<<<"particles">>, <<"coordinates">>>>, <<4, 3>>, NoAttribute, <<>>)

MeshItems(kind) ==
    CASE kind = "none" -> <<>>
      [] kind = "geometry" -> <<GeometryGroup>>
      [] kind = "tet" -> <<GeometryGroup, TopologyGroup(0, 2, 4, 3)>>
      [] kind = "two" -> <<GeometryGroup, TopologyGroup(0, 2, 4, 3), TopologyGroup(1, 2, 3, 2)>>
      [] kind = "pyramid" -> <<GeometryGroup, TopologyGroup(0, 2, 5, 3)>>
      [] kind = "hybrid" -> <<GeometryGroup, TopologyWithHybridCells, HybridTopologyGroup>>
      [] kind = "hybridApart" -> <<GeometryGroup, TopologyGroup(0, 2, 4, 3), HybridTopologyGroup>>

MeshFieldItems(kind) ==
    CASE kind = "none" -> <<>>
      [] kind = "fields" -> <<FieldsGroup(<<"vertex_fields">>, <<Velocity>>),
                             FieldsGroup(<<"cell_fields">>, <<Pressure>>)>>
      [] kind = "undetermined" ->
            <<FieldsGroup(<<"vertex_fields">>, <<Velocity>>),
              FieldsGroup(<<"cell_fields">>, <<Pressure, Unknown(<<"cell_fields">>)>>)>>
      [] kind = "flat" -> <<FieldsGroup(<<"vertex_fields">>, <<Stretch>>)>>
      [] kind = "suffixed" ->
            <<FieldsGroup(<<"vertex_fields">>, <<Velocity>>),
              FieldsGroup(<<"cell_fields">>, <<Pressure>>),
              FieldsGroup(<<"vertex_fields", "_", "1">>, <<Displacement>>)>>

TimeItems(kind) ==
    CASE kind = "none" -> <<>>
      [] kind = "zero" -> <<TimeDataset(<<0>>)>>
      [] kind = "series" -> <<TimeDataset(<<1, 2>>)>>

ParticleItems(kind) ==
    CASE kind = "none" -> <<>>
      [] kind = "promoted" -> <<FieldsGroup(<<"particle_fields">>, <<Mass, Coor, Species>>)>>
      [] kind = "coordinates" -> <<ParticlesGroup(<<Coordinates>>),
                                  FieldsGroup(<<"particle_fields">>, <<Mass, Coor>>)>>
      [] kind = "bare" -> <<ParticlesGroup(<<>>), FieldsGroup(<<"particle_fields">>, <<Coor, Mass>>)>>
      [] kind = "massOnly" -> <<FieldsGroup(<<"particle_fields">>, <<Mass>>)>>
      [] kind = "undetermined" ->
            <<ParticlesGroup(<<Coordinates>>),
              FieldsGroup(<<"particle_fields">>, <<Mass, Unknown(<<"particle_fields">>)>>)>>

\* the root of a container; Name() is the file name, given when the root is handed over
Root(mesh, meshFields, time, particles) ==
    Group(<<"file">>, <<>>,
          MeshItems(mesh) \o MeshFieldItems(meshFields) \o TimeItems(time) \o ParticleItems(particles))

Roots ==
    {Root(m, "none", t, p) : m \in {"none", "geometry", "tet"}, t \in {"none", "zero"},
                             p \in {"none", "promoted", "coordinates"}}
    \cup {Root("two", "fields", "series", "coordinates"),
          Root("tet", "fields", "zero", "none"),
          Root("tet", "undetermined", "none", "none"),
          Root("pyramid", "none", "zero", "none"),
          Root("none", "none", "series", "promoted"),
          Root("none", "none", "none", "bare"),
          Root("none", "none", "zero", "massOnly"),
          Root("tet", "none", "zero", "undetermined"),
          Root("two", "suffixed", "zero", "none"),
          Root("tet", "flat", "zero", "none"),
          Root("hybrid", "none", "zero", "none"),
          Root("hybridApart", "none", "none", "none")}

\* the k-th file (0-based)
Named(root, k) == [root EXCEPT !.name = <<"file", to_string(k)>>]

\* Specifications a caller fills in by hand: a mesh collection at times 0 and 1 with a
\* particle collection at the sentinel, and a mesh collection whose keys are 1 and 3
CallerGrid(time, root) ==
    LET r == FromPetscHdf(Named(root, 0), 0).specification.gridsCollections[1].grids[0][1]
    IN [r EXCEPT !.time = time]

CallerSpecifications ==
    {[gridsCollections |->
         <<[name |-> <<"domain">>,
            grids |-> (0 :> <<CallerGrid(0, Root("tet", "fields", "none", "none"))>>)
                      @@ (1 :> <<CallerGrid(1, Root("tet", "fields", "none", "none"))>>)],
           [name |-> <<"particle_domain">>,
            grids |-> (0 :> <<CallerGrid(-1, Root("none", "none", "none", "promoted"))>>)]>>],
     [gridsCollections |->
         <<[name |-> <<"domain">>,
            grids |-> (1 :> <<CallerGrid(0, Root("tet", "none", "none", "none"))>>)
                      @@ (3 :> <<CallerGrid(1, Root("tet", "none", "none", "none"))>>)]>>]}

\* ------------------------------------------------------------ specifications
vars == <<xvars, fvars>>

\* the second extraction before its first root
NotYetAgain == [specification |-> NoSpecification, count |-> 0, thrown |-> <<>>]

\* the extractor and builder at rest
ExtractorIdle ==
    /\ form = "none"
    /\ pulled = <<>>
    /\ passed = <<>>
    /\ timeIndexCount = 0
    /\ specification = NoSpecification
    /\ failure = <<>>
    /\ handed = NoSpecification
    /\ cellMap = CellMapInitial
    /\ attached = <<>>
    /\ document = <<>>
    /\ again = NotYetAgain

\* the field harness at rest
FieldsIdle ==
    /\ fields = <<>>
    /\ thrown = <<>>
    /\ oobRead = FALSE
    /\ locals = <<>>
    /\ written = 0
    /\ dataItem = NoDataItem

Init ==
    /\ xpc = "start"
    /\ ExtractorIdle
    /\ fpc = "idle"
    /\ hdfField = Mass
    /\ fieldLocation = "NODE"
    /\ timeOffset = 0
    /\ FieldsIdle

\* FromPetscHdf(rootObject) on one root
BuildFromSingleSource ==
    /\ xpc = "start"
    /\ \E root \in Roots, g \in Garbage :
         LET r == FromPetscHdf(Named(root, 0), g)
         IN /\ pulled' = <<Named(root, 0)>>
            /\ passed' = r.passed
            /\ specification' = r.specification
            /\ failure' = r.thrown
            /\ xpc' = IF r.thrown = <<>> THEN "done" ELSE "failed"
    /\ form' = "single"
    /\ UNCHANGED <<timeIndexCount, handed, cellMap, attached, document, again, fvars>>

\* lines 219-223: FromPetscHdf(consumer) up to its loop
BuildFromMultipleSources ==
    /\ xpc = "start"
    /\ xpc' = "multi"
    /\ form' = "multi"
    /\ specification' = NoSpecification
    /\ timeIndexCount' = 0
    /\ UNCHANGED <<pulled, passed, failure, handed, cellMap, attached, document, again, fvars>>

\* lines 226-341: the consumer yields a root and the loop body runs on it
Consume ==
    /\ xpc = "multi"
    /\ Len(pulled) < MaxRoots
    /\ \E root \in Roots, g \in Garbage :
         LET hdf5Object == Named(root, Len(pulled))
             r == FromPetscHdfStep(specification, hdf5Object, timeIndexCount, g)
         IN /\ pulled' = Append(pulled, hdf5Object)
            /\ passed' = passed \o r.passed
            /\ specification' = r.specification
            /\ failure' = r.thrown
            /\ xpc' = IF r.thrown = <<>> THEN "multi" ELSE "failed"
            /\ timeIndexCount' = IF r.thrown = <<>> THEN timeIndexCount + 1 ELSE timeIndexCount
    /\ UNCHANGED <<form, handed, cellMap, attached, document, again, fvars>>

\* lines 226, 343: the consumer yields nullptr and the Specification is returned
EndOfSequence ==
    /\ xpc = "multi"
    /\ xpc' = "done"
    /\ UNCHANGED <<form, pulled, passed, timeIndexCount, specification, failure, handed, cellMap,
                   attached, document, again, fvars>>

\* a caller hands the builder a Specification it filled in itself
CallerMade ==
    /\ xpc = "start"
    /\ specification' \in CallerSpecifications
    /\ form' = "caller"
    /\ xpc' = "done"
    /\ UNCHANGED <<pulled, passed, timeIndexCount, failure, handed, cellMap, attached, document,
                   again, fvars>>

\* XdmfBuilder::Build on the Specification
Build ==
    /\ xpc = "done"
    /\ handed' = specification
    /\ attached' = [i \in DOMAIN specification.gridsCollections |->
                       BuildCollection(specification.gridsCollections[i], cellMap)]
    /\ document' = Flatten(attached')
    /\ specification' =
          [gridsCollections |-> [i \in DOMAIN specification.gridsCollections |->
                                    TouchedCollection(specification.gridsCollections[i])]]
    /\ cellMap' = InsertDefaults(cellMap, UNION {LookedUp(specification.gridsCollections[i]) :
                                                    i \in DOMAIN specification.gridsCollections})
    /\ xpc' = "built"
    /\ UNCHANGED <<form, pulled, passed, timeIndexCount, failure, again, fvars>>

\* the extraction is run again on the roots of the returned Specification, one root
\* of the sequence at a time (the single-source form has one root)
BuildAgain ==
    /\ xpc = "done"
    /\ form \in {"single", "multi"}
    /\ again.thrown = <<>>
    /\ again.count < Len(pulled)
    /\ \E g \in Garbage :
         LET After(r) == again' = [specification |-> r.specification,
                                   count |-> again.count + 1,
                                   thrown |-> r.thrown]
         IN After(IF form = "single"
                  THEN FromPetscHdf(pulled[1], g)
                  ELSE FromPetscHdfStep(again.specification, pulled[again.count + 1],
                                        again.count, g))
    /\ UNCHANGED <<xpc, form, pulled, passed, timeIndexCount, specification, failure, handed,
                   cellMap, attached, document, fvars>>

Next ==
    \/ BuildFromSingleSource
    \/ BuildFromMultipleSources
    \/ Consume
    \/ EndOfSequence
    \/ CallerMade
    \/ Build
    \/ BuildAgain

Spec == Init /\ [][Next]_vars

\* ------------------------------------------------ the field-inference harness
FieldsInit ==
    /\ xpc = "idle"
    /\ ExtractorIdle
    /\ fpc = "in"
    /\ hdfField \in FieldNodes
    /\ fieldLocation \in {"NODE", "CELL"}
    /\ timeOffset \in {0, 1}
    /\ FieldsIdle

\* one call GenerateFieldsFromPetsc(fields, {hdfField}, fieldLocation, file, timeOffset)
GenerateFields ==
    /\ fpc = "in"
    /\ \E g \in Garbage :
         LET r == GenerateFieldsFromPetsc(fields, <<hdfField>>, fieldLocation, <<"file">>,
                                          timeOffset, g)
         IN /\ fields' = r.fields
            /\ thrown' = r.thrown
            /\ oobRead' = r.oob
            /\ locals' = r.locals
            /\ fpc' = IF r.thrown = <<>> THEN "inferred" ELSE "threw"
    /\ UNCHANGED <<hdfField, fieldLocation, timeOffset, written, dataItem, xvars>>

\* XdmfBuilder::WriteField on the next field of the list (Build's loop over grid.fields)
WriteNextField ==
    /\ fpc = "inferred"
    /\ written < Len(fields)
    /\ dataItem' = WriteField(fields[written + 1]).DataItem
    /\ written' = written + 1
    /\ UNCHANGED <<fpc, hdfField, fieldLocation, timeOffset, fields, thrown, oobRead, locals,
                   xvars>>

FieldsNext == GenerateFields \/ WriteNextField

SpecFields == FieldsInit /\ [][FieldsNext]_vars

\* ------------------------------------------------- properties of the extractor
\* the collections of the Specification under construction
Collections == specification.gridsCollections

\* every GridDescription of a collection, whatever its time index
GridsOf(collection) ==
    UNION {{collection.grids[k][j] : j \in DOMAIN collection.grids[k]} :
              k \in DOMAIN collection.grids}

\* a particle GridDescription carries the synthesized topology, whose path is empty; a
\* mesh GridDescription carries the path of its cells
IsParticleGrid(grid) == grid.topology.location.path = <<>>

\* the multi-source call is running or has returned its Specification
MultiReturned == form = "multi" /\ xpc \in {"multi", "done"}

\* C1: in the multi-source form, after any sequence of roots, there is at most one mesh
\* collection and at most one particle collection, every mesh grid description is in the
\* mesh collection and every particle grid description in the particle collection, and
\* only the particle collection is named "particle_domain".
C1_MeshAndParticleCollections ==
    MultiReturned =>
        /\ Cardinality({i \in DOMAIN Collections :
                           Collections[i].name = <<"particle_domain">>}) <= 1
        /\ Cardinality({i \in DOMAIN Collections :
                           Collections[i].name # <<"particle_domain">>}) <= 1
        /\ \A i \in DOMAIN Collections : \A grid \in GridsOf(Collections[i]) :
              IsParticleGrid(grid) <=> Collections[i].name = <<"particle_domain">>

\* the number of GridDescriptions the multi-source loop body builds from one root: one per
\* topology when there is a geometry, one per time when there are particles
Topologies(root) ==
    Cardinality({i \in DOMAIN root.items : root.items[i].name[1] = "topology"})

BuiltFrom(root) ==
    (IF Contains(root, <<"geometry">>) THEN Topologies(root) ELSE 0)
    + (IF Contains(root, <<"particles">>) \/ Contains(root, <<"particle_fields">>)
       THEN Len(TimeOf(root)) ELSE 0)

\* the GridDescriptions stored under time index k, over all collections
StoredUnder(k) ==
    UNION {IF k \in DOMAIN Collections[i].grids
           THEN {<<i, j>> : j \in DOMAIN Collections[i].grids[k]}
           ELSE {} : i \in DOMAIN Collections}

\* C2 (state part): while the multi-source loop runs and after it returned, the counter
\* equals the number of roots pulled, every stored grid description sits under an index
\* k below the counter and was built from the k-th root, and the k-th root's grid
\* descriptions are all there.
CounterAndKeys ==
    MultiReturned =>
        /\ timeIndexCount = Len(pulled)
        /\ \A i \in DOMAIN Collections : \A k \in DOMAIN Collections[i].grids :
              /\ k \in 0..(Len(pulled) - 1)
              /\ \A j \in DOMAIN Collections[i].grids[k] :
                    Collections[i].grids[k][j].geometry.location.file = pulled[k + 1].name
        /\ \A k \in 0..(Len(pulled) - 1) :
              Cardinality(StoredUnder(k)) = BuiltFrom(pulled[k + 1])

\* C2 (step part): the counter starts at 0, a root pulled without an error raises it by
\* exactly one, and once the end-of-sequence signal has ended the loop nothing is pulled.
CounterSteps ==
    /\ (form' = "multi" /\ form # "multi") => timeIndexCount' = 0 /\ pulled' = <<>>
    /\ (form = "multi" /\ pulled' # pulled) =>
          /\ xpc = "multi"
          /\ Len(pulled') = Len(pulled) + 1
          /\ xpc' = "multi" => timeIndexCount' = timeIndexCount + 1
    /\ (form = "multi" /\ xpc \in {"done", "built"}) =>
          pulled' = pulled /\ timeIndexCount' = timeIndexCount

\* C2: In BuildFromMultipleSources the time-index counter starts at 0 and increases by
\* exactly one per root returned by the supplier, every grid description built from the
\* k-th root is stored under time index k and no other, and the loop stops at the first
\* end-of-sequence signal and pulls nothing afterwards.
C2_TimeIndexPerRoot == [](CounterAndKeys) /\ [][CounterSteps]_vars

\* C2's case: two roots were pulled and the end-of-sequence signal came; the first root
\* contributed no grid and the second one did, so a collection has the single key 1
C2_SecondRootUnderKeyOne ==
    /\ form = "multi" /\ xpc = "done" /\ Len(pulled) = 2
    /\ BuiltFrom(pulled[1]) = 0
    /\ \E i \in DOMAIN Collections : DOMAIN Collections[i].grids = {1}

\* --------------------------------------------------- properties of the builder
\* the k-th smallest (k = 1, 2, ...) of a set of time indices
Smallest(keys, k) == CHOOSE x \in keys : Cardinality({y \in keys : y < x}) = k - 1

\* the GridDescriptions of a collection, time indices ascending, each index's in order
RECURSIVE InTimeOrder(_, _)
InTimeOrder(collection, k) ==
    IF k > Cardinality(DOMAIN collection.grids) THEN <<>>
    ELSE collection.grids[Smallest(DOMAIN collection.grids, k)] \o InTimeOrder(collection, k + 1)

\* the uniform grids of a list of Grid elements, in document order
RECURSIVE Uniforms(_)
Uniforms(elements) ==
    IF elements = <<>> THEN <<>>
    ELSE (IF elements[1].GridType = "Uniform" THEN <<elements[1]>>
          ELSE Uniforms(elements[1].Grids))
         \o Uniforms(Tail(elements))

\* the uniform grid of a hybrid topology: its cells are the "hcells" of the container
IsHybridUniform(element) ==
    /\ element.Topology[1].DataItem # <<>>
    /\ Last(element.Topology[1].DataItem[1].reference.path) = <<"hcells">>

\* the primary-topology uniform grids of a list of Grid elements, in document order
PrimaryUniforms(elements) == SelectSeq(Uniforms(elements), LAMBDA e : ~IsHybridUniform(e))

\* what identifies the primary uniform grid of a GridDescription: the array its Geometry
\* refers to and the names of its Attribute children
GridMark(grid) == <<grid.geometry.location, [i \in DOMAIN grid.fields |-> grid.fields[i].name]>>

UniformMark(element) ==
    <<element.Geometry[1].DataItem.reference,
      [i \in DOMAIN element.Attributes |-> element.Attributes[i].Name]>>

\* C3: for every grid collection of a Specification the extractor produced, Build visits
\* the time indices in ascending order and emits exactly one primary-topology uniform grid,
\* with its fields, for every GridDescription under every time index, whether or not
\* the keys are the contiguous range 0..n-1.
C3_OneUniformGridPerDescription ==
    (xpc = "built" /\ form \in {"single", "multi"}) =>
        \A i \in DOMAIN handed.gridsCollections :
            LET expected == InTimeOrder(handed.gridsCollections[i], 1)
                emitted == PrimaryUniforms(attached[i])
            IN /\ Len(emitted) = Len(expected)
               /\ \A n \in DOMAIN expected : UniformMark(emitted[n]) = GridMark(expected[n])

\* a field node of undetermined type
Undetermined(node) == ~HasAttribute(node, "vector_field_type") /\ ~HasAttribute(node, "Nc")

\* C6: if a field node the single- or multi-source build passed to field inference has
\* neither "vector_field_type" nor "Nc", the build call ended in an error naming that
\* field and there is no Specification, not even of what earlier nodes or roots gave.
C6_UndeterminedFieldIsFatal ==
    (\E n \in DOMAIN passed : Undetermined(passed[n])) =>
        LET first == CHOOSE n \in DOMAIN passed :
                        Undetermined(passed[n]) /\ \A m \in 1..(n - 1) : ~Undetermined(passed[m])
        IN /\ xpc = "failed"
           /\ failure = <<"Cannot determine field type for ">> \o passed[first].name
           /\ specification = NoSpecification
           /\ document = <<>>

\* C6's case: the second root of a multi-source build holds the undetermined node, after
\* a first root that gave grids
C6_SecondRootUndetermined ==
    /\ form = "multi" /\ xpc = "failed" /\ Len(pulled) = 2
    /\ BuiltFrom(pulled[1]) > 0
    /\ \E n \in DOMAIN passed : Undetermined(passed[n])
    /\ failure = <<"Cannot determine field type for ", "unknown">>

\* the names of the cell-type table
CellTypeNames ==
    {"Polyvertex", "Polyline", "Triangle", "Quadrilateral", "Tetrahedron", "Wedge", "Hexahedron"}

\* C7: every Topology element of a document Build returned has a TopologyType of the
\* cell-type table, and the table has the entries it had before Build (Build having
\* failed on any (dimension, numberCorners) pair the table lacks).
C7_UnmappedTopologyIsAnError ==
    xpc = "built" =>
        /\ \A n \in DOMAIN Uniforms(document) :
              Uniforms(document)[n].Topology[1].TopologyType \in CellTypeNames
        /\ cellMap = CellMapInitial

\* the fields inference gives for the root's "particle_fields" (names do not depend on
\* the time offset or on an outside read)
Inferred(root) ==
    GenerateFieldsFromPetsc(<<>>, Get(root, <<"particle_fields">>).items, "NODE", root.name, 0, 0)

\* the root has no "particles/coordinates" child and inference on "particle_fields" gave
\* a field named "DMSwarmPIC_coor"
Promotable(root) ==
    /\ ~(Contains(root, <<"particles">>)
         /\ Contains(Get(root, <<"particles">>), <<"coordinates">>))
    /\ Contains(root, <<"particle_fields">>)
    /\ Inferred(root).thrown = <<>>
    /\ FindNamed(Inferred(root).fields, <<"DMSwarmPIC_coor">>) # 0

\* the names of `fs` without the first one equal to `name`
RECURSIVE NamesWithout(_, _)
NamesWithout(fs, name) ==
    IF fs = <<>> THEN <<>>
    ELSE IF fs[1].name = name THEN [i \in DOMAIN Tail(fs) |-> Tail(fs)[i].name]
    ELSE <<fs[1].name>> \o NamesWithout(Tail(fs), name)

\* the particle GridDescriptions built from `root`
ParticleGridsFrom(root) ==
    UNION {{grid \in GridsOf(Collections[i]) :
               IsParticleGrid(grid) /\ grid.topology.location.file = root.name} :
              i \in DOMAIN Collections}

\* C8: whenever the last root handed to particle extraction has no "particles/coordinates"
\* child (no "particles" group, or one without "coordinates") and inference gave a field
\* named "DMSwarmPIC_coor", the extraction goes through, that field is the geometry of the
\* root's particle grids, it is no longer in their field lists while the other fields
\* keep their order, and the topology has an empty path, numberCorners 0, number the
\* geometry's degrees of freedom and dimension the geometry's component dimension.
C8_PromotedParticleGeometry ==
    (form \in {"single", "multi"} /\ pulled # <<>> /\ Promotable(Last(pulled))) =>
        /\ failure = <<>>
        /\ ParticleGridsFrom(Last(pulled)) # {}
        /\ \A grid \in ParticleGridsFrom(Last(pulled)) :
              /\ grid.geometry.name = <<"DMSwarmPIC_coor">>
              /\ [i \in DOMAIN grid.fields |-> grid.fields[i].name]
                    = NamesWithout(Inferred(Last(pulled)).fields, <<"DMSwarmPIC_coor">>)
              /\ grid.topology.location.path = <<>>
              /\ grid.topology.numberCorners = 0
              /\ grid.topology.number = GetDof(grid.geometry)
              /\ grid.topology.dimension = GetDimension(grid.geometry)

\* the temporal-wrapper rule for one collection
WrappedInTime(collection) ==
    /\ DOMAIN collection.grids # {}
    /\ collection.grids[Smallest(DOMAIN collection.grids, 1)][1].time >= 0

Rank == Len(hdfField.shape)

\* hasTimeDimension of the node
TimeStepping == HasAttribute(hdfField, "timestepping") /\ Attribute(hdfField, "timestepping") > 0

\* the type "vector_field_type" stands for, before the downgrade
TypeOfString(str) ==
    CASE str = "scalar" -> "SCALAR"
      [] str = "vector" -> "VECTOR"
      [] str = "tensor" -> "TENSOR"
      [] str = "matrix" -> "MATRIX"
      [] OTHER -> "NONE"

\* the downgrade rule of a VECTOR
Downgraded ==
    fieldLocation = "CELL" /\ ((TimeStepping /\ Rank < 3) \/ (~TimeStepping /\ Rank < 2))

\* C4: GenerateFieldsFromPetsc resolves the node's type as this function of attributes,
\* location, rank and hasTimeDimension: with "vector_field_type" (also when "Nc" is there
\* too) the lookup of its string, NONE for any other string, VECTOR downgraded to SCALAR
\* exactly when the location is CELL and (hasTimeDimension and rank < 3, or not
\* hasTimeDimension and rank < 2); otherwise with "Nc": SCALAR for 1, VECTOR for 2 or 3,
\* VECTOR marked for splitting for any other positive value, NONE for 0.
C4_FieldTypeResolution ==
    fpc = "inferred" =>
        LET type == locals[1].fieldType
            marked == locals[1].marked
        IN IF HasAttribute(hdfField, "vector_field_type")
           THEN LET looked == TypeOfString(Attribute(hdfField, "vector_field_type"))
                IN /\ type = IF looked = "VECTOR" /\ Downgraded THEN "SCALAR" ELSE looked
                   /\ ~marked
           ELSE /\ HasAttribute(hdfField, "Nc")
                /\ LET nc == Attribute(hdfField, "Nc")
                   IN /\ nc = 1 => type = "SCALAR" /\ ~marked
                      /\ nc \in {2, 3} => type = "VECTOR" /\ ~marked
                      /\ nc > 3 => type = "VECTOR" /\ marked
                      /\ nc = 0 => type = "NONE" /\ ~marked

\* C4's case: a CELL node with time steps and rank 2 that has "vector_field_type" =
\* "vector" and "Nc" as well resolved to SCALAR
C4_CellVectorDowngraded ==
    /\ fpc = "inferred" /\ fieldLocation = "CELL" /\ TimeStepping /\ Rank = 2
    /\ HasAttribute(hdfField, "vector_field_type") /\ HasAttribute(hdfField, "Nc")
    /\ Attribute(hdfField, "vector_field_type") = "vector"
    /\ locals[1].fieldType = "SCALAR"

\* the node is one GenerateFieldsFromPetsc splits: Nc outside 1..3 and non-zero (when no
\* "vector_field_type" overrides it), or a SCALAR whose raw shape has rank >= 3
Split ==
    \/ /\ ~HasAttribute(hdfField, "vector_field_type")
       /\ HasAttribute(hdfField, "Nc")
       /\ Attribute(hdfField, "Nc") \notin {0, 1, 2, 3}
    \/ locals[1].fieldType = "SCALAR" /\ Rank >= 3

\* the name of component c
NameOfComponent(c) ==
    IF HasAttribute(hdfField, ComponentAttribute(c))
    THEN hdfField.name \o <<"_", Attribute(hdfField, ComponentAttribute(c))>>
    ELSE hdfField.name \o <<to_string(c)>>

\* C5: whenever GenerateFieldsFromPetsc splits a node into components it emits, in
\* ascending component order, exactly one description per component c in 0..d-1, d the
\* source field's componentDimension: fieldType SCALAR, componentDimension 1,
\* componentStride d, componentOffset c, the source's raw shape, location, timeOffset and
\* hasTimeDimension, and the name name_componentName{c} when that attribute exists, else
\* name followed by c; the unsplit field itself is not emitted.
C5_ComponentSplitting ==
    (fpc = "inferred" /\ Split) =>
        LET d == locals[1].componentDimension
        IN /\ locals[1].separateIntoComponents
           /\ d = ComponentDimension(hdfField.shape, d)
           /\ Len(fields) = d
           /\ \A c \in 0..(d - 1) :
                 fields[c + 1] =
                     [name |-> NameOfComponent(c),
                      location |-> [path |-> hdfField.path, file |-> <<"file">>],
                      shape |-> hdfField.shape,
                      timeOffset |-> timeOffset,
                      componentOffset |-> c,
                      componentStride |-> d,
                      componentDimension |-> 1,
                      fieldLocation |-> fieldLocation,
                      fieldType |-> "SCALAR",
                      hasTimeDimension |-> TimeStepping]

\* C5's case: a node with Nc = 4, two components per entry and a name for component 1
\* gave two descriptions, the second one named after the attribute, at offset 1, stride 2
C5_NamedSecondComponent ==
    /\ fpc = "inferred" /\ Split
    /\ HasAttribute(hdfField, "Nc") /\ Attribute(hdfField, "Nc") = 4
    /\ Rank = 2 /\ hdfField.shape[2] = 2
    /\ Len(fields) = 2
    /\ fields[1].name = <<"f", "0">>
    /\ fields[2].name = <<"f", "_", "y">>
    /\ fields[2].componentOffset = 1 /\ fields[2].componentStride = 2

\* C10: for every emitted field description with hasTimeDimension whose array's first
\* dimension exceeds its timeOffset, the hyperslab WriteData writes, start (timeOffset,
\* 0, componentOffset), stride (1, 1, componentStride), count (1, dof,
\* componentDimension), has the rank of the referenced array's Dimensions and stays
\* inside the array on every axis, selecting at time slice timeOffset the dof x
\* componentDimension entries of the field.
C10_HyperslabAddressesTheArray ==
    (fpc = "inferred" /\ written > 0 /\ fields[written].hasTimeDimension
       /\ fields[written].shape[1] > fields[written].timeOffset) =>
        LET fd == fields[written]
            array == dataItem.arrayDimensions
        IN /\ dataItem.ItemType = "HyperSlab"
           /\ dataItem.start = <<fd.timeOffset, 0, fd.componentOffset>>
           /\ dataItem.stride = <<1, 1, fd.componentStride>>
           /\ dataItem.count = <<1, GetDof(fd), GetDimension(fd)>>
           /\ array = fd.shape
           /\ Len(dataItem.start) = Len(array)
           /\ Len(dataItem.count) = Len(array)
           /\ \A axis \in DOMAIN array \cap DOMAIN dataItem.start :
                 /\ dataItem.count[axis] >= 1
                 /\ dataItem.start[axis] + (dataItem.count[axis] - 1) * dataItem.stride[axis]
                       < array[axis]

\* the product of the entries of a shape
RECURSIVE Product(_)
Product(shape) == IF shape = <<>> THEN 1 ELSE shape[1] * Product(Tail(shape))

\* C11: for every field description GenerateFieldsFromPetsc emits with hasTimeDimension
\* false, unsplit or a component of a split group, GetDof() * GetDimension() equals the
\* product of the entries of its shape, not counting the trailing 1 appended to a SCALAR
\* of rank < 3 (that is, the product of the node's raw shape).
C11_DofTimesDimensionIsTheShape ==
    fpc = "inferred" =>
        \A n \in DOMAIN fields :
            ~fields[n].hasTimeDimension =>
                GetDof(fields[n]) * GetDimension(fields[n]) = Product(hdfField.shape)

\* C15: for every node processed without the undetermined-type error, whatever its type,
\* the pre-split componentDimension is shape[2] (0-based) when the possibly adjusted shape
\* has at least 3 dimensions and the last entry of that shape otherwise, and computing it
\* reads no index outside the shape.
C15_ComponentDimensionInsideTheShape ==
    fpc = "inferred" =>
        /\ ~oobRead
        /\ locals[1].componentDimension =
              IF Len(locals[1].shape) >= 3 THEN locals[1].shape[3] ELSE Last(locals[1].shape)

\* the suffix of the topology group a mesh GridDescription was built for: <<>> for
\* "topology", <<"_", k>> for "topology_k"
SuffixOf(grid) == Tail(grid.topology.location.path[1])

\* the field comes from the vertex (cell) field group of that suffix, as a NODE (CELL) field
FromVertexFields(field, suffix) ==
    field.location.path[1] = <<"vertex_fields">> \o suffix /\ field.fieldLocation = "NODE"

FromCellFields(field, suffix) ==
    field.location.path[1] = <<"cell_fields">> \o suffix /\ field.fieldLocation = "CELL"

\* C16: in both build forms, the mesh grid description built for topology index k takes
\* its fields from the groups with the same suffix, vertex_fields{suffix} first as NODE
\* fields, then cell_fields{suffix} as CELL fields; for k >= 1 it never receives the
\* fields of the unsuffixed groups.
C16_FieldsOfTheSameSuffix ==
    form \in {"single", "multi"} =>
        \A i \in DOMAIN Collections : \A grid \in GridsOf(Collections[i]) :
            ~IsParticleGrid(grid) =>
                /\ \A n \in DOMAIN grid.fields :
                      \/ FromVertexFields(grid.fields[n], SuffixOf(grid))
                      \/ FromCellFields(grid.fields[n], SuffixOf(grid))
                /\ \A n, m \in DOMAIN grid.fields :
                      (FromCellFields(grid.fields[n], SuffixOf(grid))
                         /\ FromVertexFields(grid.fields[m], SuffixOf(grid))) => m < n

\* the mesh GridDescriptions built from `root`
MeshGridsFrom(root) ==
    UNION {{grid \in GridsOf(Collections[i]) :
               ~IsParticleGrid(grid) /\ grid.geometry.location.file = root.name} :
              i \in DOMAIN Collections}

\* the root holds a mesh: "geometry" with "vertices" and "topology" with "cells"
HoldsMesh(root) ==
    /\ Contains(root, <<"geometry">>) /\ Contains(Get(root, <<"geometry">>), <<"vertices">>)
    /\ Contains(root, <<"topology">>) /\ Contains(Get(root, <<"topology">>), <<"cells">>)

\* C14: in mesh extraction of both forms, when a "hybrid_topology" group is found the
\* grid's hybridTopology is read from that group's "hcells" child (path, number =
\* shape[0], numberCorners = shape[1]) and the primary topology group need not hold
\* "hcells"; when there is no such group hybridTopology.number stays 0.
C14_HybridCellsOfTheHybridGroup ==
    (form \in {"single", "multi"} /\ pulled # <<>> /\ HoldsMesh(Last(pulled))
       /\ \A n \in DOMAIN passed : ~Undetermined(passed[n])) =>
        LET root == Last(pulled)
            found == FindPetscHdfChild(root, <<"hybrid_topology">>)
        IN /\ failure = <<>>
           /\ MeshGridsFrom(root) # {}
           /\ \A grid \in MeshGridsFrom(root) :
                 IF found # <<>>
                 THEN LET hcells == Get(found[1], <<"hcells">>)
                      IN /\ grid.hybridTopology.location = [path |-> hcells.path, file |-> root.name]
                         /\ grid.hybridTopology.number = hcells.shape[1]
                         /\ grid.hybridTopology.numberCorners = hcells.shape[2]
                 ELSE grid.hybridTopology.number = 0

\* C13: Build only reads the Specification: after Build every grid collection has
\* exactly the time-index keys and the grid descriptions it had before, also when the
\* keys of a collection are not contiguous.
C13_BuildLeavesTheSpecification ==
    xpc = "built" =>
        /\ DOMAIN specification.gridsCollections = DOMAIN handed.gridsCollections
        /\ \A i \in DOMAIN handed.gridsCollections :
              /\ DOMAIN specification.gridsCollections[i].grids
                    = DOMAIN handed.gridsCollections[i].grids
              /\ specification.gridsCollections[i].grids = handed.gridsCollections[i].grids

\* the Specification the first extraction returned
Returned == IF xpc = "built" THEN handed ELSE specification

\* the second extraction went through every root the first one was given
RanAgain == xpc \in {"done", "built"} /\ pulled # <<>> /\ again.count = Len(pulled)

\* C12: extraction is deterministic: BuildFromSingleSource run twice on the same root,
\* and the multi-source form run twice on the same sequence of roots, produce
\* structurally identical Specifications.
C12_ExtractionIsDeterministic ==
    RanAgain => (again.thrown = <<>> /\ again.specification = Returned)

====
